---- MODULE Spec2Model ----
(***************************************************************************)
(* A model of rai/excel_reader.py: the console prompt that collects the   *)
(* Excel filenames (ask_for_filenames), the read stage                     *)
(* (read_time_series_excel, read_multiple_excel_files) and the alignment   *)
(* pipeline (process_date_format, add_holiday_data, process_dataframes).   *)
(*                                                                         *)
(* A DataFrame is a record [columns, rows]: rows is the sequence of the    *)
(* frame's rows in index order, each [key, vals], key an index label       *)
(* (a pandas Timestamp or a datetime.date) and vals the row's cells by     *)
(* column.  A cell is {} when it is absent (NaN) and {v} when it holds v.  *)
(***************************************************************************)
EXTENDS Integers, Sequences, FiniteSets, TLC

VARIABLES
    pc,                    \* where the program is
    fs,                    \* the paths that exist on disk right now
    entered,               \* how many console lines have been typed
    filename,              \* ask_for_filenames' local: the last line typed, stripped
    filenames,             \* ask_for_filenames' list / read_multiple_excel_files' argument
    disk,                  \* what pd.read_excel finds in each file
    dataframes,            \* the dict read_multiple_excel_files builds, process_dataframes reads
    pos,                   \* the position of the running for loop
    processed_dataframes,  \* the dict process_dataframes builds
    run                    \* how many times process_dataframes has been called

vars == <<pc, fs, entered, filename, filenames, disk, dataframes, pos, processed_dataframes, run>>

(***************************************************************************)
(* Bounds of the model.                                                    *)
(***************************************************************************)
MaxDay == 3          \* calendar days are 0..MaxDay
MaxRows == 2         \* rows of a collection, all its tables together
MaxRuns == 2         \* calls of process_dataframes, each on the result of the last
MaxInputs == 4       \* console lines typed at the prompt
MaxFiles == 3        \* filenames handed to read_multiple_excel_files

Days == 0..MaxDay
TimesOfDay == 0..1           \* a Timestamp's time of day: midnight, or later
TicksPerDay == Cardinality(TimesOfDay)
NaN == {}

(***************************************************************************)
(* Index labels.                                                           *)
(***************************************************************************)
Timestamp(d, t) == [kind |-> "Timestamp", day |-> d, tod |-> t]
Date(d) == [kind |-> "date", day |-> d, tod |-> 0]

\* to_datetime with a time-zone slip: a date read as UTC midnight and shown in a
\* zone behind UTC lands on the evening before
to_datetime_tz(k) == IF k.kind = "date" THEN Timestamp(k.day - 1, 1) ELSE Timestamp(k.day, k.tod)

\* pd.to_datetime of a label: a date becomes the Timestamp of its midnight
to_datetime(k) == Timestamp(k.day, k.tod)

\* DatetimeIndex.date: the calendar day of a Timestamp, its time of day dropped
date(k) == Date(k.day)

\* a label's place on the time line
Ticks(k) == k.day * TicksPerDay + k.tod

isna(x) == x = NaN

RECURSIVE SeqMin(_), SeqMax(_)
\* Index.min / Index.max of a non-empty index
SeqMin(s) ==
    IF Len(s) = 1 THEN s[1]
    ELSE LET m == SeqMin(Tail(s)) IN IF Ticks(s[1]) <= Ticks(m) THEN s[1] ELSE m
SeqMax(s) ==
    IF Len(s) = 1 THEN s[1]
    ELSE LET m == SeqMax(Tail(s)) IN IF Ticks(s[1]) >= Ticks(m) THEN s[1] ELSE m

index(df) == [i \in 1..Len(df.rows) |-> df.rows[i].key]

is_unique(idx) == \A i, j \in 1..Len(idx) : idx[i] = idx[j] => i = j

(***************************************************************************)
(* process_date_format: the index labels cut to the day, in place.         *)
(***************************************************************************)
process_date_format(df) ==
    [df EXCEPT !.rows = [i \in 1..Len(df.rows) |->
                            [df.rows[i] EXCEPT !.key = date(to_datetime(@))]]]

(***************************************************************************)
(* add_holiday_data.                                                       *)
(***************************************************************************)
\* date_range with the end day left out
date_range_open(start, end) ==
    LET n == (Ticks(end) - Ticks(start)) \div TicksPerDay
    IN  [i \in 1..n |-> Date(start.day + i - 1)]

\* pd.date_range(start, end, freq='D') and .date: start, start + 1 day, ... while <= end
date_range(start, end) ==
    LET n == (Ticks(end) - Ticks(start)) \div TicksPerDay
    IN  [i \in 1..(n + 1) |-> Date(start.day + i - 1)]

\* a reindex that accepts duplicate labels
reindex_tolerant(other, target) == FALSE

\* other.reindex(target): the row of `other` at each label of target, absent cells
\* where other has no such label.  Raises on an index with duplicate labels
\* unless the two indexes are equal.
reindex_raises(other, target) ==
    /\ index(other) # target
    /\ ~is_unique(index(other))

reindex(other, target) ==
    [i \in 1..Len(target) |->
        IF \E j \in 1..Len(other.rows) : other.rows[j].key = target[i]
        THEN LET j == CHOOSE j \in 1..Len(other.rows) : other.rows[j].key = target[i]
             IN  other.rows[j].vals
        ELSE [c \in other.columns |-> NaN]]

\* new_df.update(other): the non-absent cells of other, aligned on the index,
\* overwrite new_df's
update(new_rows, cols, other) ==
    LET that == reindex(other, [i \in 1..Len(new_rows) |-> new_rows[i].key])
    IN  [i \in 1..Len(new_rows) |->
            [new_rows[i] EXCEPT !.vals =
                [c \in cols |-> IF c \in other.columns /\ ~isna(that[i][c])
                                THEN that[i][c] ELSE new_rows[i].vals[c]]]]

\* a fill that looks one row back only
ffill_col_limit1(rows, c, i) ==
    IF ~isna(rows[i].vals[c]) THEN rows[i].vals[c]
    ELSE IF i = 1 THEN NaN
    ELSE rows[i - 1].vals[c]

RECURSIVE ffill_col(_, _, _)
\* the forward-filled value of column c at row i
ffill_col(rows, c, i) ==
    IF ~isna(rows[i].vals[c]) THEN rows[i].vals[c]
    ELSE IF i = 1 THEN NaN
    ELSE ffill_col(rows, c, i - 1)

\* a fillna that fills nothing
ffill_none(rows, cols) == rows

\* DataFrame.fillna(method='ffill')
ffill(rows, cols) ==
    [i \in 1..Len(rows) |-> [rows[i] EXCEPT !.vals = [c \in cols |-> ffill_col(rows, c, i)]]]

\* an empty index has min() = max() = NaN and pd.date_range refuses it;
\* update() cannot reindex a frame whose index has duplicate labels
add_holiday_data_raises(df) ==
    IF Len(df.rows) = 0 THEN TRUE
    ELSE reindex_raises(df, date_range(SeqMin(index(df)), SeqMax(index(df))))

add_holiday_data(df) ==
    LET start_date == SeqMin(index(df))
        end_date == SeqMax(index(df))
        all_dates == date_range(start_date, end_date)
        new_df == [i \in 1..Len(all_dates) |->
                      [key |-> all_dates[i], vals |-> [c \in df.columns |-> NaN]]]
    IN  [columns |-> df.columns,
         rows |-> ffill(update(new_df, df.columns, df), df.columns)]

(***************************************************************************)
(* A dict, in insertion order: a sequence of [name, df] entries.           *)
(***************************************************************************)
dict_keys(d) == {d[i].name : i \in 1..Len(d)}

dict_get(d, k) == LET i == CHOOSE i \in 1..Len(d) : d[i].name = k IN d[i].df

\* d[k] = v
dict_set(d, k, v) ==
    IF k \in dict_keys(d)
    THEN [i \in 1..Len(d) |-> IF d[i].name = k THEN [name |-> k, df |-> v] ELSE d[i]]
    ELSE Append(d, [name |-> k, df |-> v])

(***************************************************************************)
(* process_dataframes: one action per iteration of its for loop.           *)
(***************************************************************************)
\* an iteration that completes: the frame is normalized in place, expanded and stored
ProcessSeries ==
    /\ pc = "process"
    /\ pos <= Len(dataframes)
    /\ LET name == dataframes[pos].name
           df == process_date_format(dataframes[pos].df)
       IN  /\ ~add_holiday_data_raises(df)
           /\ dataframes' = [dataframes EXCEPT ![pos].df = df]
           /\ processed_dataframes' = dict_set(processed_dataframes, name, add_holiday_data(df))
    /\ pos' = pos + 1
    /\ UNCHANGED <<pc, fs, entered, filename, filenames, disk, run>>

\* an iteration in which add_holiday_data raises: nothing catches the exception,
\* so it leaves process_dataframes and nothing is returned
ProcessSeriesRaises ==
    /\ pc = "process"
    /\ pos <= Len(dataframes)
    /\ LET df == process_date_format(dataframes[pos].df)
       IN  /\ add_holiday_data_raises(df)
           /\ dataframes' = [dataframes EXCEPT ![pos].df = df]
    /\ pc' = "raised"
    /\ UNCHANGED <<fs, entered, filename, filenames, disk, pos, processed_dataframes, run>>

\* the loop is over: return processed_dataframes
ProcessReturn ==
    /\ pc = "process"
    /\ pos > Len(dataframes)
    /\ pc' = "returned"
    /\ UNCHANGED <<fs, entered, filename, filenames, disk, dataframes, pos, processed_dataframes, run>>

\* process_dataframes called again, on the collection it returned
ProcessAgain ==
    /\ pc = "returned"
    /\ run < MaxRuns
    /\ dataframes' = processed_dataframes
    /\ processed_dataframes' = <<>>
    /\ pos' = 1
    /\ pc' = "process"
    /\ run' = run + 1
    /\ UNCHANGED <<fs, entered, filename, filenames, disk>>

\* what the call of process_dataframes handed back to its caller
Returned == IF pc = "returned" THEN processed_dataframes ELSE <<>>

(***************************************************************************)
(* The tables a run starts from: what read_time_series_excel returns, a    *)
(* frame indexed by Timestamps and sorted by them.                         *)
(***************************************************************************)
Values == {10, 12}
Cells == {NaN} \cup {{v} : v \in Values}

RowsOf(cols) ==
    [key : {Timestamp(d, t) : d \in Days, t \in TimesOfDay}, vals : [cols -> Cells]]

\* the index is in time order (sort_index)
Sorted(rows) == \A i \in 1..(Len(rows) - 1) : Ticks(rows[i].key) <= Ticks(rows[i + 1].key)

AlignColumns == {"open", "close"}
BatchColumns == {"close"}

Frame(cols, rows) == [columns |-> cols, rows |-> rows]

NoFiles ==
    /\ fs = {}
    /\ entered = 0
    /\ filename = <<>>
    /\ filenames = <<>>
    /\ disk = <<>>

StartProcess ==
    /\ pc = "process"
    /\ pos = 1
    /\ processed_dataframes = <<>>
    /\ run = 1
    /\ NoFiles

\* one series of two columns
InitAlign ==
    /\ \E k \in 0..MaxRows : \E rows \in [1..k -> RowsOf(AlignColumns)] :
          /\ Sorted(rows)
          /\ dataframes = <<[name |-> "A", df |-> Frame(AlignColumns, rows)]>>
    /\ StartProcess

\* no series, one series or two series, of one column
Init ==
    /\ \E ka, kb \in 0..MaxRows :
          /\ ka + kb <= MaxRows
          /\ \E a \in [1..ka -> RowsOf(BatchColumns)], b \in [1..kb -> RowsOf(BatchColumns)] :
                /\ Sorted(a)
                /\ Sorted(b)
                /\ dataframes \in
                      {<<[name |-> "A", df |-> Frame(BatchColumns, a)],
                         [name |-> "B", df |-> Frame(BatchColumns, b)]>>}
                      \cup (IF kb = 0 THEN {<<[name |-> "A", df |-> Frame(BatchColumns, a)]>>}
                            ELSE {})
                      \cup (IF ka + kb = 0 THEN {<<>>} ELSE {})
    /\ StartProcess

NextProcess ==
    \/ ProcessSeries
    \/ ProcessSeriesRaises
    \/ ProcessReturn
    \/ ProcessAgain

\* process_dataframes on a collection of up to two series
Spec == Init /\ [][NextProcess]_vars

\* process_dataframes on one series of two columns
SpecAlign == InitAlign /\ [][NextProcess]_vars

(***************************************************************************)
(* Properties of the alignment pipeline.                                   *)
(***************************************************************************)
\* series i has been through a completed iteration of the running call
Done(i) == i \in 1..Len(dataframes) /\ i < pos

\* its table as add_holiday_data received it, and the table stored for it
In(i) == dataframes[i].df
Out(i) == dict_get(processed_dataframes, dataframes[i].name)

DaysOf(df) == {df.rows[j].key.day : j \in 1..Len(df.rows)}
MinDay(df) == CHOOSE d \in DaysOf(df) : \A e \in DaysOf(df) : d <= e
MaxDayOf(df) == CHOOSE d \in DaysOf(df) : \A e \in DaysOf(df) : e <= d
UniqueDays(df) ==
    \A i, j \in 1..Len(df.rows) : df.rows[i].key.day = df.rows[j].key.day => i = j

\* C1: for a table with at least one row and no duplicate day keys, the table
\* add_holiday_data returns has as its date keys exactly the calendar days from
\* min(date) to max(date) inclusive, once each and in increasing order:
\* (max_date - min_date).days + 1 rows.
C1_CalendarComplete ==
    \A i \in 1..Len(dataframes) :
        (Done(i) /\ Len(In(i).rows) >= 1 /\ UniqueDays(In(i))) =>
            /\ Len(Out(i).rows) = MaxDayOf(In(i)) - MinDay(In(i)) + 1
            /\ \A k \in 1..Len(Out(i).rows) : Out(i).rows[k].key = Date(MinDay(In(i)) + k - 1)

\* a table whose days leave a gap has been expanded
C1_Witness ==
    \E i \in 1..Len(dataframes) :
        /\ Done(i)
        /\ run = 1
        /\ Len(In(i).rows) = 2
        /\ Len(Out(i).rows) > 2

\* the rows of df that hold an observation of column c on or before day d
ObservedBy(df, c, d) ==
    {j \in 1..Len(df.rows) : df.rows[j].key.day <= d /\ ~isna(df.rows[j].vals[c])}

\* C2: every cell of the aligned table holds the value of the most recent
\* original non-absent observation of its column at or before its date, and is
\* absent if there is none.
C2_ForwardFill ==
    \A i \in 1..Len(dataframes) :
        Done(i) =>
            \A k \in 1..Len(Out(i).rows) : \A c \in Out(i).columns :
                LET obs == ObservedBy(In(i), c, Out(i).rows[k].key.day)
                IN  IF obs = {} THEN isna(Out(i).rows[k].vals[c])
                    ELSE LET last == CHOOSE j \in obs :
                                        \A j2 \in obs : In(i).rows[j2].key.day <= In(i).rows[j].key.day
                         IN  Out(i).rows[k].vals[c] = In(i).rows[last].vals[c]

\* the example {day 0: 10, day 3: 12} has been aligned to 10, 10, 10, 12
C2_Witness ==
    \E i \in 1..Len(dataframes) :
        /\ Done(i)
        /\ run = 1
        /\ [j \in 1..Len(In(i).rows) |-> <<In(i).rows[j].key.day, In(i).rows[j].vals["close"]>>]
              = <<<<0, {10}>>, <<3, {12}>>>>
        /\ [k \in 1..Len(Out(i).rows) |-> Out(i).rows[k].vals["close"]]
              = <<{10}, {10}, {10}, {12}>>

\* C3: in every column of every table process_dataframes returns, an absent
\* cell lies before the column's first non-absent original observation, and no
\* absent cell follows a non-absent one.
C3_AbsentOnlyBeforeFirst ==
    pc = "returned" =>
        \A i \in 1..Len(dataframes) :
            \A c \in Out(i).columns : \A k \in 1..Len(Out(i).rows) :
                isna(Out(i).rows[k].vals[c]) =>
                    /\ \A j \in 1..Len(In(i).rows) :
                          ~isna(In(i).rows[j].vals[c]) =>
                              Out(i).rows[k].key.day < In(i).rows[j].key.day
                    /\ \A k0 \in 1..k : isna(Out(i).rows[k0].vals[c])

\* a returned column is absent on a day that was not in the input and that
\* precedes the column's first observation, and holds a value after it
C3_Witness ==
    /\ pc = "returned"
    /\ run = 1
    /\ \E i \in 1..Len(dataframes) : \E c \in Out(i).columns : \E k \in 1..Len(Out(i).rows) :
          /\ isna(Out(i).rows[k].vals[c])
          /\ Out(i).rows[k].key.day \notin DaysOf(In(i))
          /\ ~isna(Out(i).rows[Len(Out(i).rows)].vals[c])

\* C4: process_date_format followed by add_holiday_data, applied to a table that is
\* already the output of that pipeline, returns a table identical to its input:
\* every iteration of a call on a returned collection completes and stores the
\* table it was given.
C4_Idempotent ==
    [][(pc = "process" /\ run >= 2 /\ pos <= Len(dataframes)) =>
          /\ pc' = "process"
          /\ pos' = pos + 1
          /\ dataframes[pos].name \in dict_keys(processed_dataframes')
          /\ dict_get(processed_dataframes', dataframes[pos].name) = dataframes[pos].df
      ]_vars

\* a second call has returned a table with a gap filled and an absent cell
C4_Witness ==
    /\ pc = "returned"
    /\ run = 2
    /\ \E i \in 1..Len(dataframes) :
          /\ Len(Out(i).rows) >= 3
          /\ \E c \in Out(i).columns : isna(Out(i).rows[1].vals[c])
          /\ \E c \in Out(i).columns : ~isna(Out(i).rows[1].vals[c])

\* series i, processed on its own, raises
FailsAlone(i) == add_holiday_data_raises(process_date_format(dataframes[i].df))

\* C5: the output table for a series depends only on that series' input table:
\* whatever the other series of the collection are, the call hands back for it
\* the table its own input determines.
C5_PerSeriesIndependence ==
    pc \in {"returned", "raised"} =>
        \A i \in 1..Len(dataframes) :
            ~FailsAlone(i) =>
                /\ dataframes[i].name \in dict_keys(Returned)
                /\ dict_get(Returned, dataframes[i].name)
                      = add_holiday_data(process_date_format(dataframes[i].df))

\* C6: when the processing of one series fails, the other series of the
\* collection are still processed and their aligned tables are returned.
C6_IsolateAndContinue ==
    \A i, j \in 1..Len(dataframes) :
        (pc \in {"returned", "raised"} /\ i # j /\ FailsAlone(j) /\ ~FailsAlone(i)) =>
            dataframes[i].name \in dict_keys(Returned)

\* C7, as claimed: a table in which two rows fall on the same calendar day
\* raises no error.
C7_DuplicateDaysRaiseNoError ==
    (pc = "raised" /\ Len(dataframes[pos].df.rows) > 0) => UniqueDays(dataframes[pos].df)

\* C7, amended: a table in which two rows fall on the same calendar day is never
\* aligned: add_holiday_data raises on it (update cannot reindex duplicate
\* labels), so the call never gets past it, stores no table for it and does not return.
C7_DuplicateDaysRaise ==
    \A i \in 1..Len(dataframes) :
        ~UniqueDays(dataframes[i].df) =>
            /\ pos <= i
            /\ pc # "returned"
            /\ dataframes[i].name \notin dict_keys(processed_dataframes)
            /\ (pos = i => pc \in {"process", "raised"})

\* the call has raised on a table with two rows on one day
C7_Witness ==
    /\ pc = "raised"
    /\ ~UniqueDays(dataframes[pos].df)

(***************************************************************************)
(* Strings are sequences of one-character strings.                         *)
(***************************************************************************)
lower_char(c) ==
    CASE c = "Q" -> "q"
      [] c = "X" -> "x"
      [] c = "L" -> "l"
      [] c = "S" -> "s"
      [] OTHER -> c

\* str.lower
lower(s) == [i \in 1..Len(s) |-> lower_char(s[i])]

RECURSIVE lstrip(_), rstrip(_)
lstrip(s) == IF Len(s) > 0 /\ s[1] = " " THEN lstrip(Tail(s)) ELSE s
rstrip(s) == IF Len(s) > 0 /\ s[Len(s)] = " " THEN rstrip(SubSeq(s, 1, Len(s) - 1)) ELSE s

\* str.strip
strip(s) == rstrip(lstrip(s))

\* str.endswith
endswith(s, suffix) ==
    /\ Len(s) >= Len(suffix)
    /\ SubSeq(s, Len(s) - Len(suffix) + 1, Len(s)) = suffix

A_xlsx == <<"a", ".", "x", "l", "s", "x">>
B_XLS == <<"b", ".", "X", "L", "S">>
C_csv == <<"c", ".", "c", "s", "v">>
Xls == <<"x", "l", "s">>
LowerQ == <<"q">>
UpperQ == <<"Q">>

\* the paths that may exist while the prompt runs
Paths == {A_xlsx, B_XLS, C_csv, Xls, LowerQ}

\* the lines the user may type
Lines ==
    {A_xlsx, B_XLS, C_csv, Xls, LowerQ, UpperQ, <<>>,
     <<" ">> \o A_xlsx \o <<" ">>, <<" ">> \o UpperQ}

(***************************************************************************)
(* ask_for_filenames: one action per pass of its while loop.               *)
(***************************************************************************)
\* filename.lower() == 'q'
is_quit(f) == lower(f) = <<"q">>

\* a quit that ends the loop whatever the list holds
quit_always(list) == TRUE

\* `if not filenames` is false: at least one filename has been accepted
quit_allowed(list) == list # <<>>

os_path_exists(f) == f \in fs

\* an extension test that forgets the dot
has_excel_extension_nodot(f) ==
    \/ endswith(lower(f), <<"x", "l", "s", "x">>)
    \/ endswith(lower(f), <<"x", "l", "s">>)

\* filename.lower().endswith(('.xlsx', '.xls'))
has_excel_extension(f) ==
    \/ endswith(lower(f), <<".", "x", "l", "s", "x">>)
    \/ endswith(lower(f), <<".", "x", "l", "s">>)

\* input(...).strip()
ReadLine(line) ==
    /\ pc = "ask"
    /\ entered < MaxInputs
    /\ filename' = strip(line)
    /\ entered' = entered + 1

\* a line that passes both checks is appended
AskAccept ==
    \E line \in Lines :
        /\ ReadLine(line)
        /\ ~is_quit(strip(line))
        /\ os_path_exists(strip(line))
        /\ has_excel_extension(strip(line))
        /\ filenames' = Append(filenames, strip(line))
        /\ UNCHANGED <<pc, fs, disk, dataframes, pos, processed_dataframes, run>>

\* a missing file, or not an Excel name: an error is printed and the loop continues
AskReject ==
    \E line \in Lines :
        /\ ReadLine(line)
        /\ ~is_quit(strip(line))
        /\ ~(os_path_exists(strip(line)) /\ has_excel_extension(strip(line)))
        /\ UNCHANGED <<pc, fs, filenames, disk, dataframes, pos, processed_dataframes, run>>

\* 'q' before any file was accepted: an error is printed and the loop continues
AskQuitRefused ==
    \E line \in Lines :
        /\ ReadLine(line)
        /\ is_quit(strip(line))
        /\ ~quit_allowed(filenames)
        /\ UNCHANGED <<pc, fs, filenames, disk, dataframes, pos, processed_dataframes, run>>

\* 'q' after a file was accepted: break, return filenames
AskQuit ==
    \E line \in Lines :
        /\ ReadLine(line)
        /\ is_quit(strip(line))
        /\ quit_allowed(filenames)
        /\ pc' = "asked"
        /\ UNCHANGED <<fs, filenames, disk, dataframes, pos, processed_dataframes, run>>

\* between two prompts a file is created or deleted
FsChange ==
    /\ pc = "ask"
    /\ \E p \in Paths : fs' = IF p \in fs THEN fs \ {p} ELSE fs \cup {p}
    /\ UNCHANGED <<pc, entered, filename, filenames, disk, dataframes, pos,
                   processed_dataframes, run>>

InitPrompt ==
    /\ pc = "ask"
    /\ fs \in SUBSET Paths
    /\ entered = 0
    /\ filename = <<>>
    /\ filenames = <<>>
    /\ disk = <<>>
    /\ dataframes = <<>>
    /\ pos = 1
    /\ processed_dataframes = <<>>
    /\ run = 1

NextPrompt ==
    \/ AskAccept
    \/ AskReject
    \/ AskQuitRefused
    \/ AskQuit
    \/ FsChange

SpecPrompt == InitPrompt /\ [][NextPrompt]_vars

(***************************************************************************)
(* Properties of the prompt.                                               *)
(***************************************************************************)
\* the names of the model that end in .xlsx or .xls, whatever the case
ExcelNames == {A_xlsx, B_XLS}
\* the entries that are the sentinel
SentinelNames == {LowerQ, UpperQ}

\* C8: an entry is appended to the accepted list only if, when it was entered, the
\* file existed and its name ended in .xlsx or .xls whatever the case; every other
\* entry leaves the list unchanged and, unless it is the sentinel, is followed by
\* another prompt; the list keeps the entries in input order.
C8_PromptValidation ==
    [][entered' = entered + 1 =>
          /\ \/ filenames' = filenames
             \/ /\ filenames' = Append(filenames, filename')
                /\ filename' \in fs
                /\ filename' \in ExcelNames
          /\ (filename' \notin SentinelNames /\ ~(filename' \in fs /\ filename' \in ExcelNames)) =>
                /\ filenames' = filenames
                /\ pc' = "ask"
      ]_vars

\* two files were accepted in the order typed, and an existing file that is no
\* Excel file was turned down
C8_Witness ==
    /\ pc = "ask"
    /\ entered = 4
    /\ filenames = <<B_XLS, A_xlsx>>
    /\ filename = C_csv
    /\ C_csv \in fs

\* C9, as claimed: once a valid file has been supplied or the sentinel has been
\* entered, the loop ends.
C9_EndsOnValidFileOrQuit ==
    [][(entered' = entered + 1 /\ (filenames' # filenames \/ filename' \in SentinelNames)) =>
          pc' = "asked"
      ]_vars

\* C9, amended: the loop ends exactly when the sentinel is entered after at least
\* one file has been accepted, and the function then returns the accepted
\* filenames; a valid file does not end it, and neither does the sentinel
\* entered while the list is empty.
C9_EndsOnQuitAfterAccept ==
    [][(pc = "ask" /\ entered' = entered + 1) =>
          /\ pc' = "asked" <=> (filename' \in SentinelNames /\ filenames # <<>>)
          /\ pc' = "asked" => filenames' = filenames
      ]_vars

\* the loop went on after a first file and after a refused entry, and ended on
\* the sentinel
C9_Witness ==
    /\ pc = "asked"
    /\ entered = 4
    /\ Len(filenames) = 2

(***************************************************************************)
(* The read stage.  A sheet is what pd.read_excel finds in a file:         *)
(* [readable, columns, rows], columns in sheet order and each row a        *)
(* function from the column names to its cells.  A cell of a time column   *)
(* is [fmt, stamp]: the format it is written in ("bad": not a date) and    *)
(* the Timestamp it stands for.                                            *)
(***************************************************************************)
\* possible_time_columns; "shijian" and "riqi" stand for its two Chinese names
possible_time_columns == <<"Date", "shijian", "date", "DATE", "riqi", "datetime", "DateTime">>

Raw(fmt, d, t) == [fmt |-> fmt, stamp |-> Timestamp(d, t)]

\* two rows out of time order
SheetDate ==
    [readable |-> TRUE, columns |-> <<"Date", "close">>,
     rows |-> <<[Date |-> Raw("iso", 1, 0), close |-> {12}],
                [Date |-> Raw("iso", 0, 1), close |-> {10}]>>]
\* the time column under another of the names, and dates in two formats
SheetRiqi ==
    [readable |-> TRUE, columns |-> <<"close", "riqi">>,
     rows |-> <<[riqi |-> Raw("iso", 0, 0), close |-> {10}],
                [riqi |-> Raw("us", 2, 0), close |-> NaN]>>]
\* two of the names: the earlier one in possible_time_columns is taken
SheetTwoNames ==
    [readable |-> TRUE, columns |-> <<"date", "Date", "close">>,
     rows |-> <<[date |-> {10}, Date |-> Raw("iso", 3, 0), close |-> {12}]>>]
\* none of the names
SheetNoTimeColumn ==
    [readable |-> TRUE, columns |-> <<"when", "close">>,
     rows |-> <<[when |-> Raw("iso", 0, 0), close |-> {10}]>>]
\* a cell of the time column that is no date
SheetBadDate ==
    [readable |-> TRUE, columns |-> <<"Date", "close">>,
     rows |-> <<[Date |-> Raw("iso", 0, 0), close |-> {10}],
                [Date |-> Raw("bad", 0, 0), close |-> {12}]>>]
\* pd.read_excel raises: not a workbook
SheetUnreadable == [readable |-> FALSE, columns |-> <<>>, rows |-> <<>>]

Sheets == {SheetDate, SheetRiqi, SheetTwoNames, SheetNoTimeColumn, SheetBadDate, SheetUnreadable}

SeqToSet(q) == {q[i] : i \in 1..Len(q)}

\* the first of possible_time_columns that is a column of the sheet, <<>> if none
detect_time_column(sheet) ==
    LET hits == {i \in 1..Len(possible_time_columns) :
                    possible_time_columns[i] \in SeqToSet(sheet.columns)}
    IN  IF hits = {} THEN <<>>
        ELSE <<possible_time_columns[CHOOSE i \in hits : \A j \in hits : i <= j]>>

\* pd.to_datetime with the format inferred from the first cell
to_datetime_inferred_raises(sheet, tc) ==
    \E i \in 1..Len(sheet.rows) : sheet.rows[i][tc].fmt # sheet.rows[1][tc].fmt
                                  \/ sheet.rows[i][tc].fmt = "bad"

\* pd.to_datetime(format='mixed')
to_datetime_mixed_raises(sheet, tc) ==
    \E i \in 1..Len(sheet.rows) : sheet.rows[i][tc].fmt = "bad"

RECURSIVE sort_index(_)
\* DataFrame.sort_index: the rows in index order
sort_index(rows) ==
    IF Len(rows) = 0 THEN <<>>
    ELSE LET m == CHOOSE i \in 1..Len(rows) :
                     \A j \in 1..Len(rows) :
                        \/ Ticks(rows[i].key) < Ticks(rows[j].key)
                        \/ Ticks(rows[i].key) = Ticks(rows[j].key) /\ i <= j
         IN  <<rows[m]>> \o sort_index(SubSeq(rows, 1, m - 1) \o SubSeq(rows, m + 1, Len(rows)))

\* read_time_series_excel returns None: an exception was raised and caught
read_fails(sheet) ==
    IF ~sheet.readable THEN TRUE
    ELSE IF detect_time_column(sheet) = <<>> THEN TRUE
    ELSE /\ to_datetime_inferred_raises(sheet, detect_time_column(sheet)[1])
         /\ to_datetime_mixed_raises(sheet, detect_time_column(sheet)[1])

\* the frame read_time_series_excel returns: the time column parsed and made the
\* index, the rows sorted by it
read_time_series_excel(sheet) ==
    LET time_column == detect_time_column(sheet)[1]
        cols == SeqToSet(sheet.columns) \ {time_column}
    IN  Frame(cols,
              sort_index([i \in 1..Len(sheet.rows) |->
                            [key |-> sheet.rows[i][time_column].stamp,
                             vals |-> [c \in cols |-> sheet.rows[i][c]]]]))

(***************************************************************************)
(* os.path.basename and os.path.splitext.                                  *)
(***************************************************************************)
\* the last place of character ch in p, 0 if none
rfind(p, ch) ==
    LET at == {i \in 1..Len(p) : p[i] = ch}
    IN  IF at = {} THEN 0 ELSE CHOOSE i \in at : \A j \in at : j <= i

basename(p) == SubSeq(p, rfind(p, "/") + 1, Len(p))

\* os.path.splitext(b)[0]: b up to its last dot, unless only dots precede it
splitext_root(b) ==
    LET dot == rfind(b, ".")
    IN  IF dot = 0 \/ (\A i \in 1..(dot - 1) : b[i] = ".") THEN b
        ELSE SubSeq(b, 1, dot - 1)

\* the series name of a file: os.path.splitext(os.path.basename(filename))[0]
series_key(p) == splitext_root(basename(p))

Dir_a_x_xlsx == <<"a", "/", "x", ".", "x", "l", "s", "x">>
Dir_b_x_xlsx == <<"b", "/", "x", ".", "x", "l", "s", "x">>
X_xls == <<"x", ".", "x", "l", "s">>
Y_xlsx == <<"y", ".", "x", "l", "s", "x">>

ReadPaths == {Dir_a_x_xlsx, Dir_b_x_xlsx, X_xls, Y_xlsx}

(***************************************************************************)
(* read_multiple_excel_files: one action per iteration of its for loop.    *)
(***************************************************************************)
\* the file is read: dataframes[key] = df
ReadFile ==
    /\ pc = "read"
    /\ pos <= Len(filenames)
    /\ ~read_fails(disk[filenames[pos]])
    /\ dataframes' = dict_set(dataframes, series_key(filenames[pos]),
                              read_time_series_excel(disk[filenames[pos]]))
    /\ pos' = pos + 1
    /\ UNCHANGED <<pc, fs, entered, filename, filenames, disk, processed_dataframes, run>>

\* read_time_series_excel caught an exception and returned None: nothing is stored
ReadFileFails ==
    /\ pc = "read"
    /\ pos <= Len(filenames)
    /\ read_fails(disk[filenames[pos]])
    /\ pos' = pos + 1
    /\ UNCHANGED <<pc, fs, entered, filename, filenames, disk, dataframes,
                   processed_dataframes, run>>

\* return dataframes
ReadReturn ==
    /\ pc = "read"
    /\ pos > Len(filenames)
    /\ pc' = "read_done"
    /\ UNCHANGED <<fs, entered, filename, filenames, disk, dataframes, pos,
                   processed_dataframes, run>>

InitRead ==
    /\ pc = "read"
    /\ \E n \in 0..MaxFiles : filenames \in [1..n -> ReadPaths]
    /\ disk \in [SeqToSet(filenames) -> Sheets]
    /\ fs = SeqToSet(filenames)
    /\ entered = 0
    /\ filename = <<>>
    /\ dataframes = <<>>
    /\ pos = 1
    /\ processed_dataframes = <<>>
    /\ run = 1

NextRead ==
    \/ ReadFile
    \/ ReadFileFails
    \/ ReadReturn

SpecRead == InitRead /\ [][NextRead]_vars

(***************************************************************************)
(* Properties of the read stage.                                           *)
(***************************************************************************)
\* C10: a file whose time column cannot be detected, or whose read fails
\* otherwise, is the only one affected: every other file of the list is still
\* read and is returned with the table it would have had alone.
C10_ReadStageIsolation ==
    pc = "read_done" =>
        \A i, j \in 1..Len(filenames) :
            (read_fails(disk[filenames[j]]) /\ ~read_fails(disk[filenames[i]])) =>
                /\ series_key(filenames[i]) \in dict_keys(dataframes)
                /\ dict_get(dataframes, series_key(filenames[i]))
                      = read_time_series_excel(disk[filenames[i]])

\* What does hold of a failed read: it stores nothing and does not stop the loop.
\* The returned collection is the one the readable files of the list give, each
\* series name holding the table of the last readable file of that name.
ReadFailureStoresNothing ==
    pc = "read_done" =>
        /\ pos = Len(filenames) + 1
        /\ dict_keys(dataframes)
              = {series_key(filenames[i]) :
                    i \in {i \in 1..Len(filenames) : ~read_fails(disk[filenames[i]])}}
        /\ \A i \in 1..Len(filenames) :
              (/\ ~read_fails(disk[filenames[i]])
               /\ \A j \in (i + 1)..Len(filenames) :
                     series_key(filenames[j]) = series_key(filenames[i])
                        => read_fails(disk[filenames[j]])) =>
                  dict_get(dataframes, series_key(filenames[i]))
                     = read_time_series_excel(disk[filenames[i]])


\* the files of the list that read_time_series_excel reads
ReadOk == {i \in 1..Len(filenames) : ~read_fails(disk[filenames[i]])}

DistinctFilenames == \A i, j \in 1..Len(filenames) : filenames[i] = filenames[j] => i = j

\* C11: for a list of distinct filenames, distinct successfully read files get
\* distinct series names: the returned collection has exactly one entry per
\* successfully read file, and each of them is there with its own table.
C11_SeriesNamesUnique ==
    (pc = "read_done" /\ DistinctFilenames) =>
        /\ \A i, j \in ReadOk : series_key(filenames[i]) = series_key(filenames[j]) => i = j
        /\ Len(dataframes) = Cardinality(ReadOk)
        /\ \A i \in ReadOk :
              /\ series_key(filenames[i]) \in dict_keys(dataframes)
              /\ dict_get(dataframes, series_key(filenames[i]))
                    = read_time_series_excel(disk[filenames[i]])

====
